---- MODULE Spec2Model ----
(***************************************************************************)
(* Formula engine (engine/formula.ts) and calculator store                 *)
(* (store/calculatorStore.ts) of rechner-baukasten.                        *)
(*                                                                         *)
(* Strings are sequences of one-character strings, so that the regular     *)
(* expressions of the engine are modelled by what they match.  JavaScript  *)
(* numbers are records [t, n, d]: a rational n/d (t = "num"), NaN          *)
(* (t = "nan") or a signed infinity (t = "inf", n = 1 or -1); the other    *)
(* kinds of value an expression can produce ("fn", "obj", "str", "undef",  *)
(* "arr") only matter through `typeof result !== 'number'`.                *)
(***************************************************************************)
EXTENDS Integers, Sequences, FiniteSets, TLC

\* ------------------------------------------------------------------------
\* Characters
\* ------------------------------------------------------------------------
DigitSeq == <<"0","1","2","3","4","5","6","7","8","9">>

LowerSeq == <<"a","b","c","d","e","f","g","h","i","j","k","l","m",
              "n","o","p","q","r","s","t","u","v","w","x","y","z">>

UpperSeq == <<"A","B","C","D","E","F","G","H","I","J","K","L","M",
              "N","O","P","Q","R","S","T","U","V","W","X","Y","Z">>

Digits == {DigitSeq[i] : i \in 1..10}

LowerLetters == {LowerSeq[i] : i \in 1..26}

UpperLetters == {UpperSeq[i] : i \in 1..26}

\* \w
WordChars == Digits \cup LowerLetters \cup UpperLetters \cup {"_"}

\* the character U+0060 (the module syntax has no literal for it)
Backtick == "backtick"

\* \s
SpaceChars == {" "}

DigitVal(c) == (CHOOSE i \in 1..10 : DigitSeq[i] = c) - 1

\* the /i flag: letters compare by their lower-case form
Lower(c) == IF c \in UpperLetters
            THEN LowerSeq[CHOOSE i \in 1..26 : UpperSeq[i] = c]
            ELSE c

\* s.slice(from - 1, to) for 1-based inclusive positions
Slice(s, from, to) == IF from > to THEN <<>> ELSE SubSeq(s, from, to)

\* pattern pat occurs in s at position i (case-sensitive)
MatchAt(s, i, pat) ==
    /\ i + Len(pat) - 1 <= Len(s)
    /\ \A j \in 1..Len(pat) : s[i + j - 1] = pat[j]

Contains(s, pat) == \E i \in 1..Len(s) : MatchAt(s, i, pat)

\* /pat/i.test(s) for a literal pattern written in lower case
ContainsCI(s, pat) ==
    \E i \in 1..Len(s) :
        /\ i + Len(pat) - 1 <= Len(s)
        /\ \A j \in 1..Len(pat) : Lower(s[i + j - 1]) = Lower(pat[j])

\* index of the first position >= i whose character is not in set cs
RECURSIVE SkipWhile(_, _, _)
SkipWhile(s, i, cs) ==
    IF i <= Len(s) /\ s[i] \in cs THEN SkipWhile(s, i + 1, cs) ELSE i

\* s.trim()
RECURSIVE TrimRight(_)
TrimRight(s) ==
    IF Len(s) > 0 /\ s[Len(s)] \in SpaceChars
    THEN TrimRight(SubSeq(s, 1, Len(s) - 1))
    ELSE s

Trim(s) == TrimRight(Slice(s, SkipWhile(s, 1, SpaceChars), Len(s)))

\* ------------------------------------------------------------------------
\* Numbers
\* ------------------------------------------------------------------------
Abs(n) == IF n < 0 THEN -n ELSE n

Sgn(n) == IF n < 0 THEN -1 ELSE IF n > 0 THEN 1 ELSE 0

RECURSIVE GCD(_, _)
GCD(a, b) == IF b = 0 THEN a ELSE GCD(b, a % b)

Rat(n, d) ==
    LET g == GCD(Abs(n), Abs(d))
    IN  [t |-> "num", n |-> (Sgn(d) * n) \div g, d |-> Abs(d) \div g]

Num(n) == [t |-> "num", n |-> n, d |-> 1]

NaN == [t |-> "nan", n |-> 0, d |-> 1]

Inf(s) == [t |-> "inf", n |-> s, d |-> 1]

Other(kind) == [t |-> kind, n |-> 0, d |-> 1]

\* typeof v === 'number'
IsNumberType(v) == v.t \in {"num", "nan", "inf"}

\* Number.isFinite(v)
IsFinite(v) == v.t = "num"

\* ToNumber of a value that is not a number: undefined, a function or the
\* Math object give NaN
ToNumber(v) == IF IsNumberType(v) THEN v ELSE NaN

NNeg(a) ==
    CASE a.t = "num" -> Rat(-a.n, a.d)
      [] a.t = "inf" -> Inf(-a.n)
      [] OTHER -> NaN

NAdd(a, b) ==
    CASE a.t = "nan" \/ b.t = "nan" -> NaN
      [] a.t = "inf" /\ b.t = "inf" -> IF a.n = b.n THEN a ELSE NaN
      [] a.t = "inf" -> a
      [] b.t = "inf" -> b
      [] OTHER -> Rat(a.n * b.d + b.n * a.d, a.d * b.d)

NSub(a, b) == NAdd(a, NNeg(b))

NMul(a, b) ==
    CASE a.t = "nan" \/ b.t = "nan" -> NaN
      [] a.t = "inf" \/ b.t = "inf" ->
            IF Sgn(a.n) * Sgn(b.n) = 0 THEN NaN ELSE Inf(Sgn(a.n) * Sgn(b.n))
      [] OTHER -> Rat(a.n * b.n, a.d * b.d)

NDiv(a, b) ==
    CASE a.t = "nan" \/ b.t = "nan" -> NaN
      [] a.t = "inf" /\ b.t = "inf" -> NaN
      [] a.t = "inf" -> Inf(IF b.n < 0 THEN -a.n ELSE a.n)
      [] b.t = "inf" -> Num(0)
      [] b.n = 0 -> IF a.n = 0 THEN NaN ELSE Inf(Sgn(a.n))
      [] OTHER -> Rat(a.n * b.d, a.d * b.n)

\* Math.trunc
NTrunc(a) == IF a.t = "num" THEN Num(Sgn(a.n) * (Abs(a.n) \div a.d)) ELSE a

\* Math.floor
NFloor(a) == IF a.t = "num" THEN Num(a.n \div a.d) ELSE a

\* Math.ceil
NCeil(a) == IF a.t = "num" THEN Num(-((-a.n) \div a.d)) ELSE a

\* Math.round: floor(x + 0.5)
NRound(a) == IF a.t = "num" THEN NFloor(NAdd(a, Rat(1, 2))) ELSE a

\* the remainder operator %
NMod(a, b) ==
    CASE a.t = "nan" \/ b.t = "nan" -> NaN
      [] a.t = "inf" -> NaN
      [] b.t = "inf" -> a
      [] b.n = 0 -> NaN
      [] OTHER -> NSub(a, NMul(b, NTrunc(NDiv(a, b))))

NLess(a, b) ==
    CASE a.t = "inf" /\ b.t = "inf" -> a.n < b.n
      [] a.t = "inf" -> a.n < 0
      [] b.t = "inf" -> b.n > 0
      [] OTHER -> a.n * b.d < b.n * a.d

RECURSIVE NPow(_, _)
NPow(a, k) == IF k = 0 THEN Num(1) ELSE NMul(a, NPow(a, k - 1))

\* ------------------------------------------------------------------------
\* {name} references: the regular expression /\{(\w+)\}/g
\* ------------------------------------------------------------------------
\* position of the closing brace of a reference starting at i, or 0
RefEnd(s, i) ==
    IF i <= Len(s) /\ s[i] = "{"
    THEN LET j == SkipWhile(s, i + 1, WordChars)
         IN  IF j > i + 1 /\ j <= Len(s) /\ s[j] = "}" THEN j ELSE 0
    ELSE 0

\* the names of the references of s from position i on, in order of
\* occurrence: formula.match(/\{(\w+)\}/g).map(m => m.slice(1, -1))
RECURSIVE RefNames(_, _)
RefNames(s, i) ==
    IF i > Len(s) THEN <<>>
    ELSE IF RefEnd(s, i) > 0
         THEN <<Slice(s, i + 1, RefEnd(s, i) - 1)>> \o RefNames(s, RefEnd(s, i) + 1)
         ELSE RefNames(s, i + 1)

\* String(value) of a number held by the store
RECURSIVE NatToString(_)
NatToString(n) ==
    IF n < 10 THEN <<DigitSeq[n + 1]>>
    ELSE NatToString(n \div 10) \o <<DigitSeq[(n % 10) + 1]>>

NumberToString(v) ==
    CASE v.t = "nan" -> <<"N","a","N">>
      [] v.t = "inf" -> IF v.n < 0 THEN <<"-">> \o <<"I","n","f","i","n","i","t","y">> ELSE <<"I","n","f","i","n","i","t","y">>
      [] OTHER -> IF v.n < 0 THEN <<"-">> \o NatToString(-v.n) ELSE NatToString(v.n)

\* the replacement callback of the sanitizing engine
SubstSanitized(vars, name) ==
    IF name \notin DOMAIN vars THEN <<"0">>
    ELSE IF ~IsFinite(ToNumber(vars[name])) THEN <<"0">>
    ELSE NumberToString(vars[name])

\* the replacement callback of the first engine: String(value), finite or not
SubstLegacy(vars, name) ==
    IF name \notin DOMAIN vars THEN <<"0">> ELSE NumberToString(vars[name])

\* formula.replace(/\{(\w+)\}/g, ...) for the replacement chosen by mode
Replacement(mode, vars, name) ==
    CASE mode = "sanitized" -> SubstSanitized(vars, name)
      [] mode = "legacy" -> SubstLegacy(vars, name)
      [] mode = "exprEval" -> name
      [] mode = "one" -> <<"1">>
      [] OTHER -> <<"x">>

RECURSIVE ReplaceRefs(_, _, _, _)
ReplaceRefs(s, i, mode, vars) ==
    IF i > Len(s) THEN <<>>
    ELSE IF RefEnd(s, i) > 0
         THEN Replacement(mode, vars, Slice(s, i + 1, RefEnd(s, i) - 1))
                \o ReplaceRefs(s, RefEnd(s, i) + 1, mode, vars)
         ELSE <<s[i]>> \o ReplaceRefs(s, i + 1, mode, vars)

\* ------------------------------------------------------------------------
\* The sanitizer
\* ------------------------------------------------------------------------
ALLOWED_MATH_FUNCTIONS ==
    { <<"a","b","s">>, <<"c","e","i","l">>, <<"f","l","o","o","r">>, <<"r","o","u","n","d">>, <<"t","r","u","n","c">>,
      <<"m","a","x">>, <<"m","i","n">>, <<"p","o","w">>, <<"s","q","r","t">>, <<"c","b","r","t">>,
      <<"l","o","g">>, <<"l","o","g","1","0">>, <<"l","o","g","2">>, <<"e","x","p">>,
      <<"s","i","n">>, <<"c","o","s">>, <<"t","a","n">>, <<"a","s","i","n">>, <<"a","c","o","s">>, <<"a","t","a","n">>, <<"a","t","a","n","2">>,
      <<"s","i","n","h">>, <<"c","o","s","h">>, <<"t","a","n","h">>,
      <<"s","i","g","n">>, <<"r","a","n","d","o","m">>,
      <<"P","I">>, <<"E">> }

isValidMathCall(funcName) == funcName \in ALLOWED_MATH_FUNCTIONS

\* /\[\s*['"(backtick)]/
BracketString(e) ==
    \E i \in 1..Len(e) :
        /\ e[i] = "["
        /\ LET j == SkipWhile(e, i + 1, SpaceChars)
           IN  j <= Len(e) /\ e[j] \in {"'", "\"", Backtick}

\* /\[\s*\w+\s*\]/
BracketWord(e) ==
    \E i \in 1..Len(e) :
        /\ e[i] = "["
        /\ LET j == SkipWhile(e, i + 1, SpaceChars)
               k == SkipWhile(e, j, WordChars)
               m == SkipWhile(e, k, SpaceChars)
           IN  k > j /\ m <= Len(e) /\ e[m] = "]"

\* /\.\s*\(/
DotCall(e) ==
    \E i \in 1..Len(e) :
        /\ e[i] = "."
        /\ LET j == SkipWhile(e, i + 1, SpaceChars)
           IN  j <= Len(e) /\ e[j] = "("

\* the identifiers of DANGEROUS_PATTERNS, all matched with the /i flag
DangerousWords ==
    { <<"c","o","n","s","t","r","u","c","t","o","r">>, <<"p","r","o","t","o","t","y","p","e">>, <<"_","_","p","r","o","t","o","_","_">>,
      <<"i","m","p","o","r","t">>, <<"r","e","q","u","i","r","e">>, <<"e","v","a","l">>, <<"F","u","n","c","t","i","o","n">>,
      <<"w","i","n","d","o","w">>, <<"d","o","c","u","m","e","n","t">>, <<"g","l","o","b","a","l">>, <<"p","r","o","c","e","s","s">>, <<"t","h","i","s">>,
      <<"f","e","t","c","h">>, <<"X","M","L","H","t","t","p","R","e","q","u","e","s","t">>, <<"W","e","b","S","o","c","k","e","t">>,
      <<"l","o","c","a","l","S","t","o","r","a","g","e">>, <<"s","e","s","s","i","o","n","S","t","o","r","a","g","e">>, <<"c","o","o","k","i","e">> }

\* some pattern of DANGEROUS_PATTERNS matches e
DANGEROUS_PATTERNS(e) ==
    \/ \E w \in DangerousWords : ContainsCI(e, w)
    \/ BracketString(e)
    \/ BracketWord(e)
    \/ DotCall(e)
    \/ Contains(e, <<Backtick>>)
    \/ Contains(e, <<"\\">>)
    \/ Contains(e, <<"$", "{">>)

\* end position of a match of /Math\.\w+/ starting at i, or 0
MathEnd(e, i) ==
    IF MatchAt(e, i, <<"M","a","t","h",".">>)
    THEN LET j == SkipWhile(e, i + 5, WordChars)
         IN  IF j > i + 5 THEN j - 1 ELSE 0
    ELSE 0

\* expression.match(/Math\.(\w+)/g), each with 'Math.' removed
RECURSIVE MathCalls(_, _)
MathCalls(e, i) ==
    IF i > Len(e) THEN {}
    ELSE IF MathEnd(e, i) > 0
         THEN {Slice(e, i + 5, MathEnd(e, i))} \cup MathCalls(e, MathEnd(e, i) + 1)
         ELSE MathCalls(e, i + 1)

\* expression.replace(/Math\.\w+/g, '0')
RECURSIVE WithoutMath(_, _)
WithoutMath(e, i) ==
    IF i > Len(e) THEN <<>>
    ELSE IF MathEnd(e, i) > 0
         THEN <<"0">> \o WithoutMath(e, MathEnd(e, i) + 1)
         ELSE <<e[i]>> \o WithoutMath(e, i + 1)

\* [\d\s+\-*/().,%]
SafeChars == Digits \cup SpaceChars \cup {"+", "-", "*", "/", "(", ")", ".", ",", "%"}

\* /^[\d\s+\-*/().,%]+$/
OnlySafeChars(s) == Len(s) > 0 /\ \A i \in 1..Len(s) : s[i] \in SafeChars

\* [+*/]
SeqOperators == {"+", "*", "/"}

\* /[+*/]{2,}|[+*/]\s*[+*/]/
OperatorSequence(e) ==
    \E i \in 1..Len(e) :
        /\ e[i] \in SeqOperators
        /\ LET j == SkipWhile(e, i + 1, SpaceChars)
           IN  j <= Len(e) /\ e[j] \in SeqOperators

\* sanitizeExpression(expression) /= null
sanitizeExpression(e) ==
    /\ ~DANGEROUS_PATTERNS(e)
    /\ \A f \in MathCalls(e, 1) : isValidMathCall(f)
    /\ OnlySafeChars(WithoutMath(e, 1))
    /\ ~OperatorSequence(e)

\* ------------------------------------------------------------------------
\* Expressions: tokens
\* ------------------------------------------------------------------------
\* the functions of Math (and of the expr-eval parser) whose results are
\* rational; the formulas of this module call no other
FnNames == << <<"a","b","s">>, <<"c","e","i","l">>, <<"f","l","o","o","r">>, <<"r","o","u","n","d">>, <<"t","r","u","n","c">>, <<"s","i","g","n">>,
              <<"m","a","x">>, <<"m","i","n">>, <<"p","o","w">>, <<"r","a","n","d","o","m">> >>

IsFn(name) == \E i \in 1..Len(FnNames) : FnNames[i] = name

Fn(name) == [t |-> "fn", n |-> CHOOSE i \in 1..Len(FnNames) : FnNames[i] = name, d |-> 1]

IdentStart == LowerLetters \cup UpperLetters \cup {"_", "$"}

IdentPart == WordChars \cup {"$"}

RECURSIVE DigitsValue(_)
DigitsValue(ds) ==
    IF Len(ds) = 0 THEN 0
    ELSE 10 * DigitsValue(SubSeq(ds, 1, Len(ds) - 1)) + DigitVal(ds[Len(ds)])

RECURSIVE Pow10(_)
Pow10(k) == IF k = 0 THEN 1 ELSE 10 * Pow10(k - 1)

Token(kind, val, str) == [k |-> kind, v |-> val, s |-> str]

\* a numeric literal starting at i: its token and the position after it.
\* In the strict-mode function body a literal with a leading zero, and a
\* literal followed directly by an identifier character, are syntax errors;
\* the expr-eval tokenizer reads leading zeros as decimal digits.
NumberToken(e, i, dialect) ==
    LET j == SkipWhile(e, i, Digits)
        hasDot == j <= Len(e) /\ e[j] = "."
        k == IF hasDot THEN SkipWhile(e, j + 1, Digits) ELSE j
        int == Slice(e, i, j - 1)
        frac == IF hasDot THEN Slice(e, j + 1, k - 1) ELSE <<>>
        bad == \/ dialect = "js" /\ Len(int) > 1 /\ int[1] = "0"
               \/ dialect = "js" /\ k <= Len(e) /\ e[k] \in IdentStart
    IN  [tok |-> IF bad THEN Token("bad", NaN, <<>>)
                 ELSE Token("num", Rat(DigitsValue(int \o frac), Pow10(Len(frac))), <<>>),
         next |-> k]

\* the tokens of e from position i on
RECURSIVE Tokens(_, _, _)
Tokens(e, i, dialect) ==
    IF i > Len(e) THEN <<>>
    ELSE LET c == e[i]
             c2 == IF i < Len(e) THEN e[i + 1] ELSE " "
         IN  CASE c \in SpaceChars -> Tokens(e, i + 1, dialect)
               [] c \in Digits \/ (c = "." /\ c2 \in Digits) ->
                    <<NumberToken(e, i, dialect).tok>>
                        \o Tokens(e, NumberToken(e, i, dialect).next, dialect)
               [] c \in IdentStart ->
                    <<Token("id", NaN, Slice(e, i, SkipWhile(e, i, IdentPart) - 1))>>
                        \o Tokens(e, SkipWhile(e, i, IdentPart), dialect)
               [] dialect = "js" /\ c \in {"+", "-"} /\ c2 = c ->
                    <<Token("bad", NaN, <<>>)>> \o Tokens(e, i + 2, dialect)
               [] c \in {"+", "-", "*", "/", "%", "(", ")", ",", "."} ->
                    <<Token(c, NaN, <<>>)>> \o Tokens(e, i + 1, dialect)
               [] dialect = "exprEval" /\ c \in {"[", "]"} ->
                    <<Token(c, NaN, <<>>)>> \o Tokens(e, i + 1, dialect)
               [] OTHER -> <<Token("bad", NaN, <<>>)>> \o Tokens(e, i + 1, dialect)

\* ------------------------------------------------------------------------
\* Expressions: values
\* ------------------------------------------------------------------------
\* a binary operator.  In JavaScript + with a function or object operand
\* concatenates strings; every other case works on ToNumber of the operands
Binary(op, a, b, dialect) ==
    IF dialect = "js" /\ op = "+" /\ ({a.t, b.t} \cap {"fn", "obj", "str"}) # {}
    THEN Other("str")
    ELSE CASE op = "+" -> NAdd(ToNumber(a), ToNumber(b))
           [] op = "-" -> NSub(ToNumber(a), ToNumber(b))
           [] op = "*" -> NMul(ToNumber(a), ToNumber(b))
           [] op = "/" -> NDiv(ToNumber(a), ToNumber(b))
           [] op = "%" -> NMod(ToNumber(a), ToNumber(b))

RECURSIVE NMax(_)
NMax(args) ==
    IF Len(args) = 0 THEN Inf(-1)
    ELSE LET a == ToNumber(Head(args))
             r == NMax(Tail(args))
         IN  IF a.t = "nan" \/ r.t = "nan" THEN NaN
             ELSE IF NLess(a, r) THEN r ELSE a

RECURSIVE NMin(_)
NMin(args) ==
    IF Len(args) = 0 THEN Inf(1)
    ELSE LET a == ToNumber(Head(args))
             r == NMin(Tail(args))
         IN  IF a.t = "nan" \/ r.t = "nan" THEN NaN
             ELSE IF NLess(r, a) THEN r ELSE a

\* a call of the function FnNames[f.n]; rnd is what Math.random() returns
ApplyMath(f, args, rnd) ==
    LET name == FnNames[f.n]
        a == IF Len(args) >= 1 THEN ToNumber(args[1]) ELSE NaN
        b == IF Len(args) >= 2 THEN ToNumber(args[2]) ELSE NaN
    IN  CASE name = <<"a","b","s">> -> IF a.t = "nan" THEN NaN ELSE IF NLess(a, Num(0)) THEN NNeg(a) ELSE a
          [] name = <<"c","e","i","l">> -> NCeil(a)
          [] name = <<"f","l","o","o","r">> -> NFloor(a)
          [] name = <<"r","o","u","n","d">> -> NRound(a)
          [] name = <<"t","r","u","n","c">> -> NTrunc(a)
          [] name = <<"s","i","g","n">> -> IF a.t = "nan" THEN NaN ELSE Num(Sgn(a.n))
          [] name = <<"m","a","x">> -> NMax(args)
          [] name = <<"m","i","n">> -> NMin(args)
          [] name = <<"p","o","w">> ->
                IF b.t = "num" /\ b.d = 1 /\ b.n = 0 THEN Num(1)
                ELSE IF a.t # "num" \/ b.t # "num" \/ b.d # 1 THEN NaN
                ELSE IF b.n > 0 THEN NPow(a, b.n) ELSE NDiv(Num(1), NPow(a, -b.n))
          [] name = <<"r","a","n","d","o","m">> -> rnd

\* ------------------------------------------------------------------------
\* Expressions: parsing and evaluation
\* ------------------------------------------------------------------------
\* A parse result: syn = no syntax error so far, thr = an exception was
\* thrown while evaluating, v = the value, p = the next token.  The context
\* D is [dialect, vars, rnd]: "js" is the body of new Function, "exprEval"
\* the grammar of the expr-eval parser with its variables D.vars.
Tok(T, p) == IF p <= Len(T) THEN T[p].k ELSE "eof"

Res(syn, thr, v, p) == [syn |-> syn, thr |-> thr, v |-> v, p |-> p]

SyntaxError(p) == Res(FALSE, FALSE, NaN, p)

\* an identifier: in JavaScript only the parameter Math and the global
\* constants are bound; in expr-eval a function name, else a variable,
\* and an undefined variable throws
Ident(name, p, D) ==
    IF D.dialect = "js"
    THEN CASE name = <<"M","a","t","h">> -> Res(TRUE, FALSE, Other("obj"), p)
           [] name = <<"N","a","N">> -> Res(TRUE, FALSE, NaN, p)
           [] name = <<"I","n","f","i","n","i","t","y">> -> Res(TRUE, FALSE, Inf(1), p)
           [] OTHER -> Res(TRUE, TRUE, NaN, p)
    ELSE IF IsFn(name) THEN Res(TRUE, FALSE, Fn(name), p)
    ELSE IF name \in DOMAIN D.vars THEN Res(TRUE, FALSE, D.vars[name], p)
    ELSE Res(TRUE, TRUE, NaN, p)

\* obj.name: a member of Math, of undefined (throws) or of anything else
Member(L, name, p) ==
    CASE L.v.t = "obj" /\ IsFn(name) -> Res(TRUE, L.thr, Fn(name), p)
      [] L.v.t = "undef" -> Res(TRUE, TRUE, NaN, p)
      [] OTHER -> Res(TRUE, L.thr, Other("undef"), p)

\* the comma operator: both operands are evaluated, the right one is the value
Join(L, r) == Res(r.syn, L.thr \/ r.thr, r.v, r.p)

\* L op r
BinStep(op, L, r, dialect) ==
    Res(r.syn, L.thr \/ r.thr, Binary(op, L.v, r.v, dialect), r.p)

\* +r and -r
Signed(op, r) ==
    Res(r.syn, r.thr, IF op = "-" THEN NNeg(ToNumber(r.v)) ELSE ToNumber(r.v), r.p)

\* ( r ) needs its closing parenthesis
Closed(T, r) ==
    IF r.syn /\ Tok(T, r.p) = ")" THEN Res(TRUE, r.thr, r.v, r.p + 1)
    ELSE SyntaxError(r.p)

\* [ elements ] of the expr-eval grammar
ArrayOf(r) == Res(r.syn, r.thr, Other("arr"), r.p)

\* L(a): calling anything but a function throws a TypeError
Call(L, a, rnd) ==
    IF ~a.syn THEN SyntaxError(a.p)
    ELSE IF L.v.t = "fn" /\ ~L.thr /\ ~a.thr
         THEN Res(TRUE, FALSE, ApplyMath(L.v, a.v, rnd), a.p)
         ELSE Res(TRUE, TRUE, NaN, a.p)

\* the argument a followed by the arguments r
Cons(a, r) == Res(r.syn, a.thr \/ r.thr, <<a.v>> \o r.v, r.p)

RECURSIVE PSeq(_, _, _), SeqLoop(_, _, _), PAdd(_, _, _), AddLoop(_, _, _)
RECURSIVE PMul(_, _, _), MulLoop(_, _, _), PUnary(_, _, _), PPrimary(_, _, _)
RECURSIVE PostLoop(_, _, _), PArgs(_, _, _, _), ArgsRest(_, _, _, _)

\* Expression: AssignmentExpression { , AssignmentExpression }
PSeq(T, p, D) == SeqLoop(T, PAdd(T, p, D), D)

SeqLoop(T, L, D) ==
    IF L.syn /\ D.dialect = "js" /\ Tok(T, L.p) = ","
    THEN SeqLoop(T, Join(L, PAdd(T, L.p + 1, D)), D)
    ELSE L

PAdd(T, p, D) == AddLoop(T, PMul(T, p, D), D)

\* a loop that gives * / % the precedence of + and -
AddLoopFlat(T, L, D) ==
    IF L.syn /\ Tok(T, L.p) \in {"+", "-", "*", "/", "%"}
    THEN AddLoop(T, BinStep(Tok(T, L.p), L, PUnary(T, L.p + 1, D), D.dialect), D)
    ELSE L

AddLoop(T, L, D) ==
    IF L.syn /\ Tok(T, L.p) \in {"+", "-"}
    THEN AddLoop(T, BinStep(Tok(T, L.p), L, PMul(T, L.p + 1, D), D.dialect), D)
    ELSE L

PMul(T, p, D) == MulLoop(T, PUnary(T, p, D), D)

MulLoop(T, L, D) ==
    IF L.syn /\ Tok(T, L.p) \in {"*", "/", "%"}
    THEN MulLoop(T, BinStep(Tok(T, L.p), L, PUnary(T, L.p + 1, D), D.dialect), D)
    ELSE L

PUnary(T, p, D) ==
    IF Tok(T, p) \in {"+", "-"}
    THEN Signed(Tok(T, p), PUnary(T, p + 1, D))
    ELSE PostLoop(T, PPrimary(T, p, D), D)

PPrimary(T, p, D) ==
    CASE Tok(T, p) = "num" -> Res(TRUE, FALSE, T[p].v, p + 1)
      [] Tok(T, p) = "id" -> Ident(T[p].s, p + 1, D)
      [] Tok(T, p) = "(" -> Closed(T, PSeq(T, p + 1, D))
      [] Tok(T, p) = "[" -> ArrayOf(PArgs(T, p + 1, D, "]"))
      [] OTHER -> SyntaxError(p)

\* member accesses and calls after a primary expression
PostLoop(T, L, D) ==
    IF ~L.syn THEN L
    ELSE IF Tok(T, L.p) = "." /\ Tok(T, L.p + 1) = "id"
    THEN PostLoop(T, Member(L, T[L.p + 1].s, L.p + 2), D)
    ELSE IF Tok(T, L.p) = "."
    THEN SyntaxError(L.p)
    ELSE IF Tok(T, L.p) = "("
    THEN PostLoop(T, Call(L, PArgs(T, L.p + 1, D, ")"), D.rnd), D)
    ELSE L

\* the arguments of a call (or the elements of an array) up to the closing
\* token; v is the sequence of their values
PArgs(T, p, D, close) ==
    IF Tok(T, p) = close THEN Res(TRUE, FALSE, <<>>, p + 1)
    ELSE ArgsRest(T, PAdd(T, p, D), D, close)

\* what follows the argument a: a comma and more arguments, or the closing
\* token; JavaScript allows one trailing comma in a call
ArgsRest(T, a, D, close) ==
    IF ~a.syn THEN Res(FALSE, FALSE, <<>>, a.p)
    ELSE IF Tok(T, a.p) = "," /\ Tok(T, a.p + 1) = close
    THEN IF D.dialect = "js" THEN Res(TRUE, a.thr, <<a.v>>, a.p + 2)
         ELSE Res(FALSE, FALSE, <<>>, a.p)
    ELSE IF Tok(T, a.p) = ","
    THEN Cons(a, PArgs(T, a.p + 1, D, close))
    ELSE IF Tok(T, a.p) = close
    THEN Res(TRUE, a.thr, <<a.v>>, a.p + 1)
    ELSE Res(FALSE, FALSE, <<>>, a.p)

\* the whole token sequence must be one expression
Finish(T, r) == IF r.syn /\ r.p = Len(T) + 1 THEN r ELSE SyntaxError(r.p)

Parse(T, D) == Finish(T, PSeq(T, 1, D))

\* new Function('Math', `"use strict"; return (${e});`) and its call with
\* the Math object: the expression is parsed between the parentheses of the
\* template
RunFunction(e, rnd) ==
    Parse(Tokens(<<"(">> \o e \o <<")">>, 1, "js"),
          [dialect |-> "js", vars |-> <<>>, rnd |-> rnd])

\* parser.parse(e).evaluate(vars) of the expr-eval library
RunExprEval(e, vars, rnd) ==
    Parse(Tokens(e, 1, "exprEval"),
          [dialect |-> "exprEval", vars |-> vars, rnd |-> rnd])

\* ------------------------------------------------------------------------
\* FormulaEngine.evaluate, validate, extractVariables
\* ------------------------------------------------------------------------
\* The result of a call: value = the number returned, raised = an exception
\* left the call, executed = new Function was constructed and called,
\* code = the string it was given, outcome = the return statement taken.
Returned(value, outcome, executed, code) ==
    [value |-> value, raised |-> FALSE, outcome |-> outcome,
     executed |-> executed, code |-> code]

Raised(executed, code) ==
    [value |-> NaN, raised |-> TRUE, outcome |-> "raised",
     executed |-> executed, code |-> code]

\* !formula || formula.trim() === ''
IsBlank(formula) == Len(Trim(formula)) = 0

\* a result check that returns whatever the expression produced
ResultUnchecked(r, executed, code) == Returned(r.v, "ok", executed, code)

\* the result check: typeof result !== 'number' || !Number.isFinite(result)
ResultOrZero(r, executed, code) ==
    IF ~IsNumberType(r.v) \/ ~IsFinite(r.v)
    THEN Returned(Num(0), "nonfinite", executed, code)
    ELSE Returned(r.v, "ok", executed, code)

\* a try block that does not return when the sanitizer answers null
evaluateTryUnchecked(formula, vars, rnd) ==
    LET expression == ReplaceRefs(formula, 1, "sanitized", vars)
        run == RunFunction(expression, rnd)
    IN  IF ~run.syn \/ run.thr
        THEN [thrown |-> TRUE, ret |-> Raised(TRUE, expression)]
        ELSE [thrown |-> FALSE, ret |-> ResultOrZero(run, TRUE, expression)]

\* the try block of the sanitizing engine; thrown = control goes to catch
evaluateTry(formula, vars, rnd) ==
    LET expression == ReplaceRefs(formula, 1, "sanitized", vars)
        run == RunFunction(expression, rnd)
    IN  IF ~sanitizeExpression(expression)
        THEN [thrown |-> FALSE, ret |-> Returned(Num(0), "rejected", FALSE, <<>>)]
        ELSE IF ~run.syn \/ run.thr
        THEN [thrown |-> TRUE, ret |-> Raised(TRUE, expression)]
        ELSE [thrown |-> FALSE, ret |-> ResultOrZero(run, TRUE, expression)]

\* catch (error) { console.warn(...); return 0; }
evaluateCatch(body) ==
    IF body.thrown
    THEN Returned(Num(0), "caught", body.ret.executed, body.ret.code)
    ELSE body.ret

\* FormulaEngine.evaluate of the engine with sanitizeExpression
evaluate(formula, vars, rnd) ==
    IF IsBlank(formula) THEN Returned(Num(0), "empty", FALSE, <<>>)
    ELSE evaluateCatch(evaluateTry(formula, vars, rnd))

\* [\d\s+\-*/().,%Math.maxminroundfloorceillabspow] with the /i flag
LegacyChars ==
    SafeChars \cup {"m", "a", "t", "h", "x", "i", "n", "r", "o", "u", "d",
                    "f", "l", "c", "e", "b", "s", "p", "w"}

\* expression.replace(/Math\.\w+/g, '')
RECURSIVE StripMath(_, _)
StripMath(e, i) ==
    IF i > Len(e) THEN <<>>
    ELSE IF MathEnd(e, i) > 0 THEN StripMath(e, MathEnd(e, i) + 1)
    ELSE <<e[i]>> \o StripMath(e, i + 1)

LegacyCharsOnly(e) ==
    LET s == StripMath(e, 1)
    IN  Len(s) > 0 /\ \A i \in 1..Len(s) : Lower(s[i]) \in LegacyChars

\* FormulaEngine.evaluate of the engine with the character check only
evaluateLegacy(formula, vars, rnd) ==
    LET expression == ReplaceRefs(formula, 1, "legacy", vars)
        run == RunFunction(expression, rnd)
    IN  IF IsBlank(formula) THEN Returned(Num(0), "empty", FALSE, <<>>)
        ELSE IF ~LegacyCharsOnly(expression)
        THEN Returned(Num(0), "rejected", FALSE, <<>>)
        ELSE IF ~run.syn \/ run.thr
        THEN Returned(Num(0), "caught", TRUE, expression)
        ELSE ResultOrZero(run, TRUE, expression)

\* parseFloat(s): the longest decimal prefix of s after leading white space,
\* NaN when there is none
ParseFloat(s) ==
    LET i == SkipWhile(s, 1, SpaceChars)
        neg == i <= Len(s) /\ s[i] = "-"
        a == IF i <= Len(s) /\ s[i] \in {"+", "-"} THEN i + 1 ELSE i
        j == SkipWhile(s, a, Digits)
        hasDot == j <= Len(s) /\ s[j] = "."
        k == IF hasDot THEN SkipWhile(s, j + 1, Digits) ELSE j
        int == Slice(s, a, j - 1)
        frac == IF hasDot THEN Slice(s, j + 1, k - 1) ELSE <<>>
        x == IF k <= Len(s) /\ s[k] \in {"e", "E"}
             THEN IF k < Len(s) /\ s[k + 1] \in {"+", "-"} THEN k + 2 ELSE k + 1
             ELSE 0
        y == IF x > 0 THEN SkipWhile(s, x, Digits) ELSE 0
        exp == IF x > 0 /\ y > x THEN DigitsValue(Slice(s, x, y - 1)) ELSE 0
        expNeg == x > 0 /\ s[x - 1] = "-"
        mant == Rat(DigitsValue(int \o frac), Pow10(Len(frac)))
        mag == IF expNeg THEN NDiv(mant, Num(Pow10(exp))) ELSE NMul(mant, Num(Pow10(exp)))
    IN  IF MatchAt(s, a, <<"I","n","f","i","n","i","t","y">>) THEN Inf(IF neg THEN -1 ELSE 1)
        ELSE IF Len(int) + Len(frac) = 0 THEN NaN
        ELSE IF neg THEN NNeg(mag) ELSE mag

\* FormulaEngine.evaluate of the engine built on the expr-eval parser
evaluateExprEval(formula, vars, rnd) ==
    LET expression == ReplaceRefs(formula, 1, "exprEval", vars)
        run == RunExprEval(expression, vars, rnd)
        num == ParseFloat(Trim(formula))
    IN  IF IsBlank(formula) THEN Returned(Num(0), "empty", FALSE, <<>>)
        ELSE IF ~run.syn \/ run.thr
        THEN IF IsFinite(num) THEN Returned(num, "parseFloat", FALSE, <<>>)
             ELSE Returned(Num(0), "caught", FALSE, <<>>)
        ELSE ResultOrZero(run, FALSE, <<>>)

\* the three revisions of engine/formula.ts
Impls == {"sanitized", "exprEval", "legacy"}

\* engine.evaluate(formula) of the revision impl
EngineEvaluate(impl, formula, vars, rnd) ==
    CASE impl = "sanitized" -> evaluate(formula, vars, rnd)
      [] impl = "exprEval" -> evaluateExprEval(formula, vars, rnd)
      [] impl = "legacy" -> evaluateLegacy(formula, vars, rnd)

\* FormulaEngine.validate(formula).valid of the engine with sanitizeExpression
validate(formula) ==
    LET testFormula == ReplaceRefs(formula, 1, "one", <<>>)
    IN  /\ sanitizeExpression(testFormula)
        /\ RunFunction(testFormula, Num(0)).syn

\* FormulaEngine.validate(formula).valid of the engine built on expr-eval
validateExprEval(formula) ==
    LET testFormula == ReplaceRefs(formula, 1, "x", <<>>)
    IN  RunExprEval(testFormula, <<>>, Num(0)).syn

\* the matches as they are, without new Set(...)
KeepAll(names) == names

\* [...new Set(names)]: the first occurrence of each element, in order
RECURSIVE Unique(_)
Unique(names) ==
    IF Len(names) = 0 THEN <<>>
    ELSE LET r == Unique(SubSeq(names, 1, Len(names) - 1))
             x == names[Len(names)]
         IN  IF \E i \in 1..Len(r) : r[i] = x THEN r ELSE Append(r, x)

\* FormulaEngine.extractVariables
extractVariables(formula) == Unique(RefNames(formula, 1))

\* ------------------------------------------------------------------------
\* The calculator store (zustand): state
\* ------------------------------------------------------------------------
\* bounds of the model
MaxOps == 3

MaxBlocks == 3

\* names addBlock draws with nanoid(6), whose alphabet is A-Za-z0-9_-, names
\* a user types in the properties panel, and numbers given to setVariable and
\* as new default values
InputNames == { <<"i","n","p","u","t","_","1">>, <<"i","n","p","u","t","_","-">> }

SliderNames == { <<"s","l","i","d","e","r","_","1">> }

\* v.replace(/[^a-zA-Z0-9_]/g, '') of the properties panel
RECURSIVE PanelName(_)
PanelName(v) ==
    IF Len(v) = 0 THEN <<>>
    ELSE IF Head(v) \in WordChars THEN <<Head(v)>> \o PanelName(Tail(v))
    ELSE PanelName(Tail(v))

\* col.replace(/[^a-zA-Z0-9_]/g, '_').toLowerCase() of the data import
ImportName(col) ==
    [i \in 1..Len(col) |-> IF col[i] \in WordChars THEN Lower(col[i]) ELSE "_"]

UserNames == { PanelName(v) : v \in { <<"a">>, <<"b">>, <<"1", " ", "a">> } }

SetValues == { Num(-3) }

DefaultValues == { Num(7) }

BlockTypes == {"text", "input", "slider", "result", "chart", "comparison"}

VARIABLES
    impl,              \* the revision of engine/formula.ts the store is built with
    calculator,        \* state.calculator: [open, blocks]; open = FALSE is null
    variables,         \* state.variables
    variablesVersion,  \* how often state.variables was replaced by a new object
    engineVars,        \* engine.variables, private to the FormulaEngine
    selectedBlockId,   \* state.selectedBlockId, 0 is null
    nextId,            \* the next value of nanoid()
    ops,               \* store actions performed
    notified,          \* the states the subscribers saw during the last action
    last,              \* the last action and its arguments
    written,           \* name -> value of the last setVariable, until the next write
    since,             \* the actions performed since the last createNewCalculator
    formula,           \* the argument of the engine call under test
    called,            \* the engine method called
    rnd,               \* what Math.random() returned during the call
    res,               \* what evaluate returned
    valid,             \* what validate returned (.valid)
    names,             \* what extractVariables returned
    users,             \* the rows of table "user": id -> [role, approved]
    hook,              \* id -> where the registration of the user stands
    req,               \* the admin API requests being handled
    calcs,             \* the rows of table custom_calculator
    s3,                \* the objects of the bucket: key -> the upload that wrote it
    up                 \* the upload requests being handled

vars == <<impl, calculator, variables, variablesVersion, engineVars,
          selectedBlockId, nextId, ops, notified, last, written, since,
          formula, called, rnd, res, valid, names,
          users, hook, req, calcs, s3, up>>

storeVars == <<calculator, variables, variablesVersion, engineVars,
               selectedBlockId, nextId, ops, notified, last, written, since>>

callVars == <<formula, called, rnd, res, valid, names>>

serverVars == <<users, hook, req, calcs, s3, up>>

EmptyMap == [n \in {} |-> NaN]

\* { ...m, [name]: value }  and  m[name] = value
Put(m, name, value) ==
    [n \in DOMAIN m \cup {name} |-> IF n = name THEN value ELSE m[n]]

\* delete m[name]
Remove(m, name) == [n \in DOMAIN m \ {name} |-> m[n]]

\* FormulaEngine.setVariables: this.variables = { ...this.variables, ...variables }
EngineSetVariables(ev, m) ==
    [n \in DOMAIN ev \cup DOMAIN m |-> IF n \in DOMAIN m THEN m[n] ELSE ev[n]]

\* FormulaEngine.setVariable: this.variables[name] = value
EngineSetVariable(ev, name, value) == Put(ev, name, value)

\* a setVariable that gives set() a copy without the new value
StoreSetVariableStale(m, name, value) == m

\* the object setVariable gives to set(): { ...variables, [name]: value }
StoreSetVariable(m, name, value) == Put(m, name, value)

Block(id, type, order, variableName, defaultValue, text) ==
    [id |-> id, type |-> type, order |-> order, variableName |-> variableName,
     defaultValue |-> defaultValue, formula |-> text]

IsVarBlock(b) == b.type \in {"input", "slider"}

\* blocks.findIndex(b => b.id === id), 0 when there is none
FindIndex(blocks, id) ==
    IF \E i \in 1..Len(blocks) : blocks[i].id = id
    THEN CHOOSE i \in 1..Len(blocks) :
            blocks[i].id = id /\ \A j \in 1..(i - 1) : blocks[j].id # id
    ELSE 0

\* a map that keeps the order property of every block
RenumberKept(blocks) == blocks

\* blocks.map((b, i) => ({ ...b, order: i }))
Renumber(blocks) == [i \in 1..Len(blocks) |-> [blocks[i] EXCEPT !.order = i - 1]]

\* blocks.filter(b => b.id !== id)
RECURSIVE Without(_, _)
Without(blocks, id) ==
    IF Len(blocks) = 0 THEN <<>>
    ELSE IF Head(blocks).id = id THEN Without(Tail(blocks), id)
    ELSE <<Head(blocks)>> \o Without(Tail(blocks), id)

\* what a subscriber sees when set() notifies it
Snapshot(blocks, m, ev) == [blocks |-> blocks, variables |-> m, engineVars |-> ev]

NoLast == [op |-> "none", id |-> 0, name |-> <<>>, newName |-> <<>>,
           value |-> NaN, renamed |-> FALSE, setDefault |-> FALSE,
           removed |-> FALSE, version |-> 0]

NoResult == [value |-> Num(0), raised |-> FALSE, outcome |-> "none",
             executed |-> FALSE, code |-> <<>>]

\* the value of since while no createNewCalculator has been performed
NotCreated == {"none"}

\* the formula '{name}'
Ref(name) == <<"{">> \o name \o <<"}">>

\* state.evaluate(formula): engine.evaluate(formula)
StoreEvaluate(f) == EngineEvaluate(impl, f, engineVars, Num(0))

\* what a result block shows: useMemo(() => evaluate(block.formula), [...,
\* variables]) is computed again whenever state.variables is a new object,
\* and the engine changes only in actions that replace state.variables
Displayed(b) == StoreEvaluate(b.formula).value

\* ------------------------------------------------------------------------
\* The server: its tables, its bucket and the requests it is handling
\* ------------------------------------------------------------------------
MaxUsers == 2

MaxRequests == 1

MaxUploads == 2

\* the ids Better Auth gives to the users that register
UserIds == 1..MaxUsers

\* the admin API requests and the upload requests the server receives
Reqs == 1..MaxRequests

Uploads == 1..MaxUploads

\* a user whose registration has not begun
NoHook == [pc |-> "none", free |-> FALSE, promoted |-> FALSE]

\* a request that has not arrived
NoRequest == [pc |-> "idle", kind |-> "none", caller |-> 0, target |-> 0, status |-> 0]

NoUpload == [pc |-> "idle", baseSlug |-> <<>>, slug |-> <<>>, counter |-> 1,
             todo |-> <<>>, hasIndex |-> FALSE, status |-> 0]

\* an empty database, an empty bucket and no request
ServerIdle ==
    /\ users = EmptyMap
    /\ hook = [u \in UserIds |-> NoHook]
    /\ req = [q \in Reqs |-> NoRequest]
    /\ calcs = {}
    /\ s3 = EmptyMap
    /\ up = [u \in Uploads |-> NoUpload]

\* useCalculatorStore = create(...): the state after construction
Init ==
    /\ impl \in Impls
    /\ calculator = [open |-> FALSE, blocks |-> <<>>]
    /\ variables = EmptyMap
    /\ variablesVersion = 0
    /\ engineVars = EmptyMap
    /\ selectedBlockId = 0
    /\ nextId = 1
    /\ ops = 0
    /\ notified = <<>>
    /\ last = NoLast
    /\ written = EmptyMap
    /\ since = NotCreated
    /\ formula = <<>>
    /\ called = "none"
    /\ rnd = Num(0)
    /\ res = NoResult
    /\ valid = FALSE
    /\ names = <<>>
    /\ ServerIdle

\* ------------------------------------------------------------------------
\* The calculator store: actions
\* ------------------------------------------------------------------------
\* createDefaultBlocks()
createDefaultBlocks(id) == << Block(id, "text", 0, <<>>, Num(0), <<>>) >>

\* createNewCalculator(name)
CreateNewCalculator ==
    /\ ops < MaxOps
    /\ calculator' = [open |-> TRUE, blocks |-> createDefaultBlocks(nextId)]
    /\ variables' = EmptyMap
    /\ variablesVersion' = variablesVersion + 1
    /\ selectedBlockId' = 0
    /\ nextId' = nextId + 1
    /\ ops' = ops + 1
    /\ since' = {}
    /\ notified' = << Snapshot(calculator'.blocks, variables', engineVars) >>
    /\ last' = [NoLast EXCEPT !.op = "createNewCalculator"]
    /\ written' = EmptyMap
    /\ UNCHANGED <<impl, engineVars, callVars, serverVars>>

\* the calculators loadCalculator is given
Configs ==
    { << Block(101, "input", 0, <<"a">>, Num(5), <<>>),
         Block(102, "result", 1, <<>>, Num(0), <<"{", "a", "}">>) >>,
      << Block(103, "slider", 0, <<"b">>, Num(9), <<>>) >> }

\* the variables loadCalculator collects from the input and slider blocks
RECURSIVE BlockVariables(_)
BlockVariables(blocks) ==
    IF Len(blocks) = 0 THEN EmptyMap
    ELSE LET m == BlockVariables(SubSeq(blocks, 1, Len(blocks) - 1))
             b == blocks[Len(blocks)]
         IN  IF IsVarBlock(b) THEN Put(m, b.variableName, b.defaultValue) ELSE m

\* loadCalculator(config)
LoadCalculator(config) ==
    /\ ops < MaxOps
    /\ engineVars' = EngineSetVariables(engineVars, BlockVariables(config))
    /\ calculator' = [open |-> TRUE, blocks |-> config]
    /\ variables' = BlockVariables(config)
    /\ variablesVersion' = variablesVersion + 1
    /\ selectedBlockId' = 0
    /\ ops' = ops + 1
    /\ since' = since \cup {"loadCalculator"}
    /\ notified' = << Snapshot(config, variables', engineVars') >>
    /\ last' = [NoLast EXCEPT !.op = "loadCalculator"]
    /\ written' = EmptyMap
    /\ UNCHANGED <<impl, nextId, callVars, serverVars>>

\* the block addBlock creates for a type, with the generated variable name
NewBlock(type, id, order, name) ==
    CASE type = "input" -> Block(id, type, order, name, Num(100), <<>>)
      [] type = "slider" -> Block(id, type, order, name, Num(50), <<>>)
      [] type = "result" -> Block(id, type, order, <<>>, Num(0), <<"0">>)
      [] type = "comparison" -> Block(id, type, order, <<>>, Num(0), <<"0">>)
      [] OTHER -> Block(id, type, order, <<>>, Num(0), <<>>)

\* the names nanoid can give to a new block of the type
GeneratedNames(type) ==
    CASE type = "input" -> InputNames
      [] type = "slider" -> SliderNames
      [] OTHER -> {<<>>}

\* addBlock(type): for input and slider setVariable(name, default) runs
\* first, then the block is appended and selected
AddBlock(type, name) ==
    /\ ops < MaxOps
    /\ calculator.open
    /\ Len(calculator.blocks) < MaxBlocks
    /\ name \in GeneratedNames(type)
    /\ name \notin DOMAIN engineVars
    /\ LET b == NewBlock(type, nextId, Len(calculator.blocks), name)
           isVar == IsVarBlock(b)
           m1 == IF isVar THEN StoreSetVariable(variables, name, b.defaultValue)
                 ELSE variables
           e1 == IF isVar THEN EngineSetVariable(engineVars, name, b.defaultValue)
                 ELSE engineVars
           blocks1 == Append(calculator.blocks, b)
       IN  /\ engineVars' = e1
           /\ variables' = m1
           /\ variablesVersion' = IF isVar THEN variablesVersion + 1 ELSE variablesVersion
           /\ calculator' = [calculator EXCEPT !.blocks = blocks1]
           /\ selectedBlockId' = b.id
           /\ notified' = (IF isVar THEN << Snapshot(calculator.blocks, m1, e1) >> ELSE <<>>)
                            \o << Snapshot(blocks1, m1, e1) >>
           /\ last' = [NoLast EXCEPT !.op = "addBlock", !.id = b.id, !.name = name,
                                     !.value = b.defaultValue, !.setDefault = isVar,
                                     !.version = variablesVersion]
           /\ written' = IF isVar THEN Put(written, name, b.defaultValue) ELSE written
    /\ nextId' = nextId + 1
    /\ ops' = ops + 1
    /\ since' = since \cup {"addBlock"}
    /\ UNCHANGED <<impl, callVars, serverVars>>

\* the updates updateBlock is given: Partial<Block> with or without the
\* properties variableName and defaultValue
Updates ==
    [hasName : BOOLEAN, variableName : UserNames,
     hasDefault : BOOLEAN, defaultValue : DefaultValues]

\* { ...block, ...updates }
Merge(block, u) ==
    [block EXCEPT !.variableName = IF u.hasName THEN u.variableName ELSE @,
                  !.defaultValue = IF u.hasDefault THEN u.defaultValue ELSE @]

\* updateBlock(id, updates)
UpdateBlock(id, u) ==
    /\ ops < MaxOps
    /\ calculator.open
    /\ LET blocks == calculator.blocks
           i == FindIndex(blocks, id)
           block == blocks[i]
           isVar == i > 0 /\ IsVarBlock(block)
           \* 'variableName' in updates, and the name differs
           rename == isVar /\ u.hasName /\ block.variableName # u.variableName
           m1 == IF rename
                 THEN Put(Remove(variables, block.variableName),
                          u.variableName, block.defaultValue)
                 ELSE variables
           e1 == IF rename THEN EngineSetVariables(engineVars, m1) ELSE engineVars
           \* 'defaultValue' in updates: setVariable(inputBlock.variableName, newValue)
           setDefault == isVar /\ u.hasDefault
           m2 == IF setDefault
                 THEN StoreSetVariable(m1, block.variableName, u.defaultValue)
                 ELSE m1
           e2 == IF setDefault
                 THEN EngineSetVariable(e1, block.variableName, u.defaultValue)
                 ELSE e1
           blocks1 == [j \in 1..Len(blocks) |->
                          IF j = i THEN Merge(blocks[j], u) ELSE blocks[j]]
           w1 == IF rename
                 THEN Remove(Remove(written, block.variableName), u.variableName)
                 ELSE written
       IN  /\ engineVars' = e2
           /\ variables' = m2
           /\ variablesVersion' = variablesVersion
                                    + (IF rename THEN 1 ELSE 0)
                                    + (IF setDefault THEN 1 ELSE 0)
           /\ calculator' = [calculator EXCEPT !.blocks = blocks1]
           /\ notified' = (IF rename THEN << Snapshot(blocks, m1, e1) >> ELSE <<>>)
                            \o (IF setDefault THEN << Snapshot(blocks, m2, e2) >> ELSE <<>>)
                            \o << Snapshot(blocks1, m2, e2) >>
           /\ last' = [NoLast EXCEPT
                         !.op = "updateBlock", !.id = id,
                         !.name = IF isVar THEN block.variableName ELSE <<>>,
                         !.newName = IF rename THEN u.variableName ELSE <<>>,
                         !.value = IF isVar /\ block.variableName \in DOMAIN variables
                                   THEN variables[block.variableName] ELSE NaN,
                         !.renamed = rename, !.setDefault = setDefault,
                         !.version = variablesVersion]
           /\ written' = IF setDefault THEN Put(w1, block.variableName, u.defaultValue)
                         ELSE w1
    /\ ops' = ops + 1
    /\ since' = since \cup {"updateBlock"}
    /\ UNCHANGED <<impl, selectedBlockId, nextId, callVars, serverVars>>

\* deleteBlock(id)
DeleteBlock(id) ==
    /\ ops < MaxOps
    /\ calculator.open
    /\ LET blocks == calculator.blocks
           i == FindIndex(blocks, id)
           isVar == i > 0 /\ IsVarBlock(blocks[i])
           m1 == IF isVar THEN Remove(variables, blocks[i].variableName) ELSE variables
           e1 == IF isVar THEN EngineSetVariables(engineVars, m1) ELSE engineVars
           blocks1 == Renumber(Without(blocks, id))
       IN  /\ engineVars' = e1
           /\ variables' = m1
           /\ variablesVersion' = IF isVar THEN variablesVersion + 1 ELSE variablesVersion
           /\ calculator' = [calculator EXCEPT !.blocks = blocks1]
           /\ notified' = (IF isVar THEN << Snapshot(blocks, m1, e1) >> ELSE <<>>)
                            \o << Snapshot(blocks1, m1, e1) >>
           /\ last' = [NoLast EXCEPT
                         !.op = "deleteBlock", !.id = id,
                         !.name = IF isVar THEN blocks[i].variableName ELSE <<>>,
                         !.removed = isVar, !.version = variablesVersion]
           /\ written' = IF isVar THEN Remove(written, blocks[i].variableName) ELSE written
    /\ selectedBlockId' = 0
    /\ ops' = ops + 1
    /\ since' = since \cup {"deleteBlock"}
    /\ UNCHANGED <<impl, nextId, callVars, serverVars>>

\* a move that inserts the removed block in front of the over block
MovedBefore(blocks, a, o) ==
    LET rest == SubSeq(blocks, 1, a - 1) \o SubSeq(blocks, a + 1, Len(blocks))
        at == IF a < o THEN o - 1 ELSE o
    IN  SubSeq(rest, 1, at - 1) \o <<blocks[a]>> \o SubSeq(rest, at, Len(rest))

\* blocks.splice(activeIndex, 1) then blocks.splice(overIndex, 0, removed)
Moved(blocks, a, o) ==
    LET rest == SubSeq(blocks, 1, a - 1) \o SubSeq(blocks, a + 1, Len(blocks))
    IN  SubSeq(rest, 1, o - 1) \o <<blocks[a]>> \o SubSeq(rest, o, Len(rest))

\* reorderBlocks(activeId, overId)
ReorderBlocks(activeId, overId) ==
    /\ ops < MaxOps
    /\ IF /\ calculator.open
          /\ FindIndex(calculator.blocks, activeId) > 0
          /\ FindIndex(calculator.blocks, overId) > 0
       THEN /\ calculator' = [calculator EXCEPT !.blocks =
                    Renumber(Moved(@, FindIndex(@, activeId), FindIndex(@, overId)))]
            /\ notified' = << Snapshot(calculator'.blocks, variables, engineVars) >>
       \* if (!calculator) return;  if (activeIndex === -1 || overIndex === -1) return;
       ELSE /\ calculator' = calculator
            /\ notified' = <<>>
    /\ last' = [NoLast EXCEPT !.op = "reorderBlocks", !.id = activeId]
    /\ ops' = ops + 1
    /\ since' = since \cup {"reorderBlocks"}
    /\ UNCHANGED <<impl, variables, variablesVersion, engineVars, selectedBlockId,
                   nextId, written, callVars, serverVars>>

\* setVariable(name, value)
SetVariable(name, value) ==
    /\ ops < MaxOps
    /\ engineVars' = EngineSetVariable(engineVars, name, value)
    /\ variables' = StoreSetVariable(variables, name, value)
    /\ variablesVersion' = variablesVersion + 1
    /\ notified' = << Snapshot(calculator.blocks, variables', engineVars') >>
    /\ last' = [NoLast EXCEPT !.op = "setVariable", !.name = name, !.value = value,
                              !.version = variablesVersion]
    /\ written' = Put(written, name, value)
    /\ ops' = ops + 1
    /\ since' = since \cup {"setVariable"}
    /\ UNCHANGED <<impl, calculator, selectedBlockId, nextId, callVars, serverVars>>

\* the names an input or slider block of the calculator carries: what the
\* block renderers pass to setVariable
BlockNames == { calculator.blocks[i].variableName :
                  i \in { j \in 1..Len(calculator.blocks) : IsVarBlock(calculator.blocks[j]) } }

\* the names handleImport passes to setVariable for the selected columns
ImportNames == { ImportName(col) : col \in { <<"2", " ", "X">> } }

\* the ids a caller passes: those of the blocks shown, and one of no block
BlockIds == { calculator.blocks[i].id : i \in 1..Len(calculator.blocks) } \cup {0}

Next ==
    \/ CreateNewCalculator
    \/ \E config \in Configs : LoadCalculator(config)
    \/ \E type \in BlockTypes : \E name \in GeneratedNames(type) : AddBlock(type, name)
    \/ \E id \in BlockIds : \E u \in Updates : UpdateBlock(id, u)
    \/ \E id \in BlockIds : DeleteBlock(id)
    \/ \E a \in BlockIds : \E o \in BlockIds : ReorderBlocks(a, o)
    \/ \E name \in BlockNames \cup ImportNames :
          \E value \in SetValues : SetVariable(name, value)

Spec == Init /\ [][Next]_vars

\* ------------------------------------------------------------------------
\* Calls of the engine on given formulas and variables
\* ------------------------------------------------------------------------
\* '{a} + {b} * 2'
FSum == <<"{", "a", "}", " ", "+", " ", "{", "b", "}", " ", "*", " ", "2">>

\* '{missing} + 5'
FMissing == <<"{", "m", "i", "s", "s", "i", "n", "g", "}", " ", "+", " ", "5">>

\* '5 + {missing}'
FMissingLast == <<"5", " ", "+", " ", "{", "m", "i", "s", "s", "i", "n", "g", "}">>

\* '10 / {x}'
FDivide == <<"1", "0", " ", "/", " ", "{", "x", "}">>

\* 'max({a},{b})'
FBareMax == <<"m", "a", "x", "(", "{", "a", "}", ",", "{", "b", "}", ")">>

\* 'Math.max({a},{b})'
FMathMax == <<"M", "a", "t", "h", ".", "m", "a", "x", "(", "{", "a", "}", ",", "{", "b", "}", ")">>

\* 'foo({a},{b})'
FBareOther == <<"f", "o", "o", "(", "{", "a", "}", ",", "{", "b", "}", ")">>

\* 'Math.foo(1)'
FMathOther == <<"M", "a", "t", "h", ".", "f", "o", "o", "(", "1", ")">>

\* 'window.location'
FWindow == <<"w", "i", "n", "d", "o", "w", ".", "l", "o", "c", "a", "t", "i", "o", "n">>

\* '{window} + 1'
FWindowRef == <<"{", "w", "i", "n", "d", "o", "w", "}", " ", "+", " ", "1">>

\* 'constructor'
FConstructor == <<"c", "o", "n", "s", "t", "r", "u", "c", "t", "o", "r">>

\* '(backtick)1(backtick)'
FBacktick == <<Backtick, "1", Backtick>>

\* '[1]'
FBracket == <<"[", "1", "]">>

\* 'eval(1)'
FEvalCall == <<"e", "v", "a", "l", "(", "1", ")">>

\* '{a}-{b}'
FDifference == <<"{", "a", "}", "-", "{", "b", "}">>

\* '-{b}'
FNegate == <<"-", "{", "b", "}">>

\* '2 %* 3'
FPercentStar == <<"2", " ", "%", "*", " ", "3">>

\* '2 -+ 3'
FMinusPlus == <<"2", " ", "-", "+", " ", "3">>

\* '2 ** 3'
FStarStar == <<"2", " ", "*", "*", " ", "3">>

\* '2 * -3'
FStarMinus == <<"2", " ", "*", " ", "-", "3">>

\* '{x} + 5'
FNonFinite == <<"{", "x", "}", " ", "+", " ", "5">>

\* ''
FEmpty == <<>>

\* ' '
FBlank == <<" ">>

\* 'Math.random()'
FRandom == <<"M", "a", "t", "h", ".", "r", "a", "n", "d", "o", "m", "(", ")">>

\* '5 apples'
FWords == <<"5", " ", "a", "p", "p", "l", "e", "s">>

\* '({a} + {b}) * 2'
FParens == <<"(", "{", "a", "}", " ", "+", " ", "{", "b", "}", ")", " ", "*", " ", "2">>

\* '-{a} % 2 - {b}'
FUnary == <<"-", "{", "a", "}", " ", "%", " ", "2", " ", "-", " ", "{", "b", "}">>

\* '{b} + {a} * {b}'
FRepeat == <<"{", "b", "}", " ", "+", " ", "{", "a", "}", " ", "*", " ", "{", "b", "}">>

Formulas ==
    { FSum, FMissing, FMissingLast, FDivide, FBareMax,
      FMathMax, FBareOther, FMathOther, FWindow, FWindowRef,
      FConstructor, FBacktick, FBracket, FEvalCall, FDifference,
      FNegate, FPercentStar, FMinusPlus, FStarStar, FStarMinus,
      FNonFinite, FEmpty, FBlank, FRandom, FWords,
      FParens, FUnary, FRepeat }

\* bound of the values in the variable maps the engine is constructed with
MaxInt == 4

NameA == <<"a">>

NameB == <<"b">>

NameX == <<"x">>

NameWindow == <<"w", "i", "n", "d", "o", "w">>

NameMissing == <<"m", "i", "s", "s", "i", "n", "g">>

\* the maps given to new FormulaEngine(variables)
VarMaps ==
    { Put(Put(EmptyMap, NameA, Num(a)), NameB, Num(b)) : a \in {2, 3}, b \in (0 - MaxInt - 1)..MaxInt }
      \cup { Put(EmptyMap, NameX, v) : v \in {Num(0), Num(4), NaN, Inf(1), Inf(-1)} }
      \cup { Put(EmptyMap, NameWindow, Num(5)), EmptyMap }

\* the values Math.random() returns
Randoms == { Num(0), Rat(1, 2) }

\* new FormulaEngine(variables) and a formula to call it with
InitCall ==
    /\ impl \in Impls
    /\ engineVars \in VarMaps
    /\ formula \in Formulas
    /\ calculator = [open |-> FALSE, blocks |-> <<>>]
    /\ variables = EmptyMap
    /\ variablesVersion = 0
    /\ selectedBlockId = 0
    /\ nextId = 1
    /\ ops = 0
    /\ notified = <<>>
    /\ last = NoLast
    /\ written = EmptyMap
    /\ since = NotCreated
    /\ called = "none"
    /\ rnd = Num(0)
    /\ res = NoResult
    /\ valid = FALSE
    /\ names = <<>>
    /\ ServerIdle

\* an evaluate that stores the 0 it substitutes for a missing variable
EvaluateCallStoring(r) ==
    /\ called' = "evaluate"
    /\ rnd' = r
    /\ res' = EngineEvaluate(impl, formula, engineVars, r)
    /\ engineVars' = Put(engineVars, NameMissing, Num(0))
    /\ UNCHANGED <<impl, calculator, variables, variablesVersion, selectedBlockId,
                   nextId, ops, notified, last, written, since, formula, valid,
                   names, serverVars>>

\* engine.evaluate(formula)
EvaluateCall(r) ==
    /\ called' = "evaluate"
    /\ rnd' = r
    /\ res' = EngineEvaluate(impl, formula, engineVars, r)
    /\ UNCHANGED <<impl, storeVars, formula, valid, names, serverVars>>

\* FormulaEngine.validate(formula) of the two revisions that parse only the
\* arithmetic grammar
ValidateCall ==
    /\ impl # "legacy"
    /\ called' = "validate"
    /\ valid' = IF impl = "exprEval" THEN validateExprEval(formula) ELSE validate(formula)
    /\ UNCHANGED <<impl, storeVars, formula, rnd, res, names, serverVars>>

\* FormulaEngine.extractVariables(formula)
ExtractCall ==
    /\ called' = "extractVariables"
    /\ names' = extractVariables(formula)
    /\ UNCHANGED <<impl, storeVars, formula, rnd, res, valid, serverVars>>

NextCall ==
    \/ \E r \in Randoms : EvaluateCall(r)
    \/ ValidateCall
    \/ ExtractCall

SpecCall == InitCall /\ [][NextCall]_vars

\* ------------------------------------------------------------------------
\* Registration and the admin API
\* ------------------------------------------------------------------------
\* the users with role super_admin in table "user"
SuperAdmins == { u \in DOMAIN users : users[u].role = "super_admin" }

\* sign-up: the adapter inserts the row with the defaults role 'user' and
\* approved false, and the after-create hook is due
CreateUser(u) ==
    /\ hook[u].pc = "none"
    /\ users' = Put(users, u, [role |-> "user", approved |-> FALSE])
    /\ hook' = [hook EXCEPT ![u].pc = "created"]
    /\ UNCHANGED <<impl, storeVars, callVars, req, calcs, s3, up>>

\* trySetFirstUserAsSuperAdmin: the UPDATE begins.  The statement runs on the
\* rows committed when it begins, so its NOT EXISTS is decided here
HookBegin(u) ==
    /\ hook[u].pc = "created"
    /\ hook' = [hook EXCEPT ![u].pc = "read", ![u].free = (SuperAdmins \ {u} = {})]
    /\ UNCHANGED <<impl, storeVars, callVars, users, req, calcs, s3, up>>

\* trySetFirstUserAsSuperAdmin: the UPDATE writes the row with the id, if it
\* is still there, and commits; result.length > 0 is wasPromoted
HookCommit(u) ==
    /\ hook[u].pc = "read"
    /\ LET hit == u \in DOMAIN users /\ hook[u].free
       IN  /\ users' = IF hit
                       THEN Put(users, u, [role |-> "super_admin", approved |-> TRUE])
                       ELSE users
           /\ hook' = [hook EXCEPT ![u].pc = "done", ![u].promoted = hit]
    /\ UNCHANGED <<impl, storeVars, callVars, req, calcs, s3, up>>

\* the response that ends a request
Respond(q, status) == [req EXCEPT ![q].pc = "done", ![q].status = status]

\* requireSuperAdmin for a request of a signed-in user: 403 unless the
\* caller's row has role super_admin
RequireSuperAdmin(q, kind, caller, target) ==
    /\ req[q].pc = "idle"
    /\ hook[caller].pc = "done"
    /\ caller \in DOMAIN users
    /\ req' = IF users[caller].role # "super_admin"
              THEN [req EXCEPT ![q] = [pc |-> "done", kind |-> kind, caller |-> caller,
                                       target |-> target, status |-> 403]]
              ELSE [req EXCEPT ![q] = [pc |-> "admin", kind |-> kind, caller |-> caller,
                                       target |-> target, status |-> 0]]
    /\ UNCHANGED <<impl, storeVars, callVars, users, hook, calcs, s3, up>>

\* DELETE /users/:userId up to the call of deleteUser
DeleteLookup(q) ==
    /\ req[q].pc = "admin"
    /\ req[q].kind = "delete"
    /\ req' = IF req[q].target = req[q].caller THEN Respond(q, 400)
              ELSE IF req[q].target \notin DOMAIN users THEN Respond(q, 400)
              ELSE IF users[req[q].target].role = "super_admin" THEN Respond(q, 400)
              ELSE [req EXCEPT ![q].pc = "deleting"]
    /\ UNCHANGED <<impl, storeVars, callVars, users, hook, calcs, s3, up>>

\* deleteUser: DELETE FROM "user" WHERE id = ..., then the response
DeleteUser(q) ==
    /\ req[q].pc = "deleting"
    /\ users' = Remove(users, req[q].target)
    /\ req' = Respond(q, 200)
    /\ UNCHANGED <<impl, storeVars, callVars, hook, calcs, s3, up>>

\* POST /users/:userId/approve up to the call of approveUser
ApproveLookup(q) ==
    /\ req[q].pc = "admin"
    /\ req[q].kind = "approve"
    /\ req' = IF req[q].target \notin DOMAIN users THEN Respond(q, 400)
              ELSE IF users[req[q].target].approved THEN Respond(q, 200)
              ELSE [req EXCEPT ![q].pc = "approving"]
    /\ UNCHANGED <<impl, storeVars, callVars, users, hook, calcs, s3, up>>

\* approveUser: UPDATE "user" SET approved = true WHERE id = ..., then the
\* response
ApproveUser(q) ==
    /\ req[q].pc = "approving"
    /\ users' = IF req[q].target \in DOMAIN users
                THEN [users EXCEPT ![req[q].target].approved = TRUE]
                ELSE users
    /\ req' = Respond(q, 200)
    /\ UNCHANGED <<impl, storeVars, callVars, hook, calcs, s3, up>>

NextUsers ==
    \/ \E u \in UserIds : CreateUser(u)
    \/ \E u \in UserIds : HookBegin(u)
    \/ \E u \in UserIds : HookCommit(u)
    \/ \E q \in Reqs : \E kind \in {"delete", "approve"} :
          \E caller \in UserIds : \E target \in UserIds :
              RequireSuperAdmin(q, kind, caller, target)
    \/ \E q \in Reqs : DeleteLookup(q)
    \/ \E q \in Reqs : DeleteUser(q)
    \/ \E q \in Reqs : ApproveLookup(q)
    \/ \E q \in Reqs : ApproveUser(q)

\* the server starts with the store and the engine untouched
InitServer == Init /\ impl = "sanitized"

SpecUsers == InitServer /\ [][NextUsers]_vars

\* ------------------------------------------------------------------------
\* Upload of a custom calculator to the bucket
\* ------------------------------------------------------------------------
\* name.toLowerCase().replace(/[^a-z0-9]+/g, '-') for names without umlauts
RECURSIVE Hyphenated(_, _)
Hyphenated(name, i) ==
    IF i > Len(name) THEN <<>>
    ELSE IF Lower(name[i]) \in LowerLetters \cup Digits
         THEN <<Lower(name[i])>> \o Hyphenated(name, i + 1)
    ELSE IF i > 1 /\ Lower(name[i - 1]) \notin LowerLetters \cup Digits
         THEN Hyphenated(name, i + 1)
    ELSE <<"-">> \o Hyphenated(name, i + 1)

\* .replace(/^-+|-+$/g, '').replace(/-{2,}/g, '-').slice(0, 50)
Stripped(t) ==
    SubSeq(t, IF Len(t) > 0 /\ t[1] = "-" THEN 2 ELSE 1,
              IF Len(t) > 50 THEN 50
              ELSE IF Len(t) > 0 /\ t[Len(t)] = "-" THEN Len(t) - 1 ELSE Len(t))

\* generateSlug(name) for a name with a letter or digit
generateSlug(name) == Stripped(Hyphenated(name, 1))

\* path.extname(entryName).toLowerCase()
RECURSIVE ExtName(_, _)
ExtName(entryName, i) ==
    IF i <= 1 THEN <<>>
    ELSE IF entryName[i] = "/" THEN <<>>
    ELSE IF entryName[i] = "." /\ entryName[i - 1] # "/"
         THEN [j \in 1..(Len(entryName) - i + 1) |-> Lower(entryName[i + j - 1])]
    ELSE ExtName(entryName, i - 1)

dangerousExtensions ==
    { <<".", "p", "h", "p">>, <<".", "j", "s", "p">>, <<".", "a", "s", "p">>,
      <<".", "a", "s", "p", "x">>, <<".", "e", "x", "e">>, <<".", "s", "h">>,
      <<".", "b", "a", "t">>, <<".", "c", "m", "d">>, <<".", "p", "s", "1">> }

IndexHtml == <<"i", "n", "d", "e", "x", ".", "h", "t", "m", "l">>

AppJs == <<"a", "p", "p", ".", "j", "s">>

RunSh == <<"r", "u", "n", ".", "S", "H">>

\* the names and the ZIP files (their file entries, root folder stripped) the
\* admins upload
UploadNames == { <<"C", "a", "l", "c">>, <<"c", "a", "l", "c", "!">>, <<"B">> }

Zips == { <<IndexHtml>>, <<AppJs, IndexHtml>>, <<AppJs>>, <<IndexHtml, RunSh>> }

\* the keys of the bucket under the prefix calculators/<slug>/
KeysOf(slug) == { k \in DOMAIN s3 : k[1] = slug }

\* the response that ends an upload request
Finished(u, status) == [up EXCEPT ![u].pc = "done", ![u].status = status]

\* POST /upload up to the first getCalculatorBySlug(slug)
ReceiveUpload(u, name, zip) ==
    /\ up[u].pc = "idle"
    /\ up' = [up EXCEPT ![u] = [NoUpload EXCEPT !.pc = "slug",
                                                !.baseSlug = generateSlug(name),
                                                !.slug = generateSlug(name),
                                                !.todo = zip]]
    /\ UNCHANGED <<impl, storeVars, callVars, users, hook, req, calcs, s3>>

\* a getCalculatorBySlug(slug) returns: the slug loop goes on with the next
\* suffix, or ends, and then the entries are checked for forbidden types
CheckSlug(u) ==
    /\ up[u].pc = "slug"
    /\ LET r == up[u]
           existing == \E c \in calcs : c.slug = r.slug
           inLoop == r.slug # r.baseSlug
           counter == IF inLoop THEN r.counter + 1 ELSE r.counter
       IN  up' = IF inLoop /\ counter > 100 THEN Finished(u, 400)
                 ELSE IF existing
                 THEN [up EXCEPT ![u].slug = r.baseSlug \o <<"-">> \o NatToString(counter),
                                 ![u].counter = counter]
                 ELSE IF \E i \in 1..Len(r.todo) :
                            ExtName(r.todo[i], Len(r.todo[i])) \in dangerousExtensions
                 THEN Finished(u, 400)
                 ELSE [up EXCEPT ![u].pc = "put", ![u].counter = counter]
    /\ UNCHANGED <<impl, storeVars, callVars, users, hook, req, calcs, s3>>

\* an uploadToS3(s3Key, data, contentType) returns or throws; after the last
\* file the handler goes on to deletePrefix or to insertCalculator
PutFile(u, ok) ==
    /\ up[u].pc = "put"
    /\ LET r == up[u]
           hasIndex == r.hasIndex \/ Head(r.todo) = IndexHtml
       IN  /\ s3' = IF ok THEN Put(s3, <<r.slug, Head(r.todo)>>, u) ELSE s3
           /\ up' = IF ~ok THEN Finished(u, 500)
                    ELSE [up EXCEPT ![u].todo = Tail(r.todo),
                                    ![u].hasIndex = hasIndex,
                                    ![u].pc = IF Len(r.todo) > 1 THEN "put"
                                              ELSE IF hasIndex THEN "insert"
                                              ELSE "cleanup"]
    /\ UNCHANGED <<impl, storeVars, callVars, users, hook, req, calcs>>

\* deletePrefix(s3Prefix) when index.html is missing, then the response 400
DeletePrefix(u) ==
    /\ up[u].pc = "cleanup"
    /\ s3' = [k \in DOMAIN s3 \ KeysOf(up[u].slug) |-> s3[k]]
    /\ up' = Finished(u, 400)
    /\ UNCHANGED <<impl, storeVars, callVars, users, hook, req, calcs>>

\* insertCalculator: the INSERT fails on a slug that is in the table (slug is
\* unique) or when the database fails; the catch answers 500
InsertCalculator(u, ok) ==
    /\ up[u].pc = "insert"
    /\ LET stored == ok /\ ~\E c \in calcs : c.slug = up[u].slug
       IN  /\ calcs' = IF stored THEN calcs \cup {[slug |-> up[u].slug, by |-> u]}
                       ELSE calcs
           /\ up' = Finished(u, IF stored THEN 200 ELSE 500)
    /\ UNCHANGED <<impl, storeVars, callVars, users, hook, req, s3>>

NextUpload ==
    \/ \E u \in Uploads : \E name \in UploadNames : \E zip \in Zips :
          ReceiveUpload(u, name, zip)
    \/ \E u \in Uploads : CheckSlug(u)
    \/ \E u \in Uploads : \E ok \in BOOLEAN : PutFile(u, ok)
    \/ \E u \in Uploads : DeletePrefix(u)
    \/ \E u \in Uploads : \E ok \in BOOLEAN : InsertCalculator(u, ok)

SpecUpload == InitServer /\ [][NextUpload]_vars

\* ------------------------------------------------------------------------
\* Properties of the store
\* ------------------------------------------------------------------------
\* the last action renamed the variable last.name of one block to
\* last.newName, did not set last.name again, and no other block carries it
RenamedAway ==
    /\ last.op = "updateBlock"
    /\ last.renamed
    /\ ~last.setDefault
    /\ last.name \notin BlockNames

\* C1: after updateBlock renamed a block's variable from a to b, a formula
\* referencing {a} evaluates with 0 for a: evaluate('{a}') returns 0.
C1_RenamedAwayEvaluatesToZero ==
    RenamedAway => StoreEvaluate(Ref(last.name)).value = Num(0)

\* C2: after updateBlock renamed a block's variable from a to b,
\* evaluate('{b}') returns the value a held in the variable store immediately
\* before the rename, also when setVariable had changed it.
C2_RenamedKeepsLiveValue ==
    (last.op = "updateBlock" /\ last.renamed /\ IsFinite(last.value))
        => StoreEvaluate(Ref(last.newName)).value = last.value

\* C3: after deleteBlock removed the input or slider block of variable v, a
\* formula referencing {v} evaluates with 0 for v until v is set again.
C3_DeletedEvaluatesToZero ==
    (last.op = "deleteBlock" /\ last.removed /\ last.name \notin BlockNames)
        => StoreEvaluate(Ref(last.name)).value = Num(0)

\* the block id of the snapshot carries the variable name
SnapshotNames(s, id, name) ==
    \E i \in 1..Len(s.blocks) : s.blocks[i].id = id /\ s.blocks[i].variableName = name

\* C4: a rename from a to b is atomic for every observer: no state notified
\* during updateBlock, and no state after it, has both a and b as variables,
\* or neither, or a block list that still names a with a variable map that
\* already names b.
C4_RenameIsAtomic ==
    RenamedAway =>
        \A i \in 1..Len(notified) :
            LET s == notified[i]
                a == last.name
                b == last.newName
            IN  /\ ~(a \in DOMAIN s.variables /\ b \in DOMAIN s.variables)
                /\ ~(a \in DOMAIN s.engineVars /\ b \in DOMAIN s.engineVars)
                /\ (a \in DOMAIN s.variables \/ b \in DOMAIN s.variables)
                /\ ~(SnapshotNames(s, last.id, a) /\ b \in DOMAIN s.variables)

Substituted == ReplaceRefs(formula, 1, "sanitized", engineVars)

\* C6: new Function is constructed and called only with a string for which
\* sanitizeExpression returned non-null in the same call; when the sanitizer
\* returns null, evaluate returns 0 and executes nothing.
C6_OnlySanitizedCodeRuns ==
    (impl = "sanitized" /\ called = "evaluate") =>
        /\ res.executed => (res.code = Substituted /\ sanitizeExpression(res.code))
        /\ (~IsBlank(formula) /\ ~sanitizeExpression(Substituted))
              => (res.value = Num(0) /\ ~res.executed)

\* a call of an allow-listed function was executed
C6_Witness ==
    /\ impl = "sanitized" /\ called = "evaluate"
    /\ formula = FMathMax
    /\ res.executed /\ res.outcome = "ok"

\* the tokens the specification calls denylisted: window, constructor, a
\* backtick, '[' and 'eval('
DenylistedTokens ==
    { <<"w", "i", "n", "d", "o", "w">>,
      <<"c", "o", "n", "s", "t", "r", "u", "c", "t", "o", "r">>,
      <<Backtick>>, <<"[">>, <<"e", "v", "a", "l", "(">> }

\* C7: for every formula that contains a denylisted token, and every variable
\* map, evaluate returns 0 and validate returns valid: false.
C7_DenylistedIsRejected ==
    (impl \in {"sanitized", "exprEval"}
        /\ \E tok \in DenylistedTokens : Contains(formula, tok))
    => /\ called = "evaluate" => res.value = Num(0)
       /\ called = "validate" => ~valid

\* the formula is rejected by the sanitizer, or fails to parse or to execute
FailsToRun ==
    IF impl = "exprEval"
    THEN LET run == RunExprEval(ReplaceRefs(formula, 1, "exprEval", engineVars),
                                engineVars, rnd)
         IN  ~run.syn \/ run.thr
    ELSE \/ ~sanitizeExpression(Substituted)
         \/ ~RunFunction(Substituted, rnd).syn
         \/ RunFunction(Substituted, rnd).thr

\* C8: evaluate never raises and returns a number, and for every formula the
\* sanitizer rejects or that fails to parse or execute it returns exactly 0.
C8_NeverRaisesAndFailsToZero ==
    (impl \in {"sanitized", "exprEval"} /\ called = "evaluate") =>
        /\ ~res.raised
        /\ IsNumberType(res.value)
        /\ FailsToRun => res.value = Num(0)

\* C9: a name that is not in the variable map is replaced by 0 and the rest
\* of the formula is still evaluated: evaluate('{missing} + 5') with an empty
\* map returns 5.
C9_MissingVariableIsZero ==
    (impl \in {"sanitized", "exprEval"} /\ called = "evaluate"
        /\ formula = FMissing /\ NameMissing \notin DOMAIN engineVars)
    => res.value = Num(5)

\* C10: a variable whose value is NaN, +Infinity or -Infinity is replaced by
\* 0 and the rest of the formula is evaluated: the whole formula is not
\* forced to 0.
C10_NonFiniteVariableIsZero ==
    (called = "evaluate" /\ formula = FNonFinite
        /\ NameX \in DOMAIN engineVars /\ ~IsFinite(engineVars[NameX]))
    => res.value = Num(5)

\* C11: the value evaluate returns is always a finite number: a computation
\* whose result is NaN or infinite returns 0, so evaluate('10 / {x}') with
\* x = 0 returns 0.
C11_ResultIsFinite ==
    called = "evaluate" =>
        /\ IsNumberType(res.value) /\ IsFinite(res.value)
        /\ (formula = FDivide /\ NameX \in DOMAIN engineVars
                /\ engineVars[NameX] = Num(0)) => res.value = Num(0)

\* 10 / 0 was computed and the result check replaced it by 0
C11_Witness ==
    /\ called = "evaluate" /\ formula = FDivide
    /\ NameX \in DOMAIN engineVars /\ engineVars[NameX] = Num(0)
    /\ res.outcome = "nonfinite" /\ res.value = Num(0)

\* C12: determinism: for every formula the sanitizer accepts, calls of
\* allow-listed functions included, two evaluations of the same formula
\* against the same variables return identical results.
C12_Deterministic ==
    [][(impl = "sanitized" /\ called = "evaluate" /\ called' = "evaluate"
          /\ sanitizeExpression(Substituted))
       => res'.value = res.value]_vars

\* C13: a call of an allow-listed function written by its bare name is
\* accepted and evaluated: evaluate('max({a},{b})') is the larger of a and b,
\* and the same text with a name outside the allow-list evaluates to 0.
C13_BareNameCallIsEvaluated ==
    (impl \in {"sanitized", "exprEval"} /\ called = "evaluate"
        /\ NameA \in DOMAIN engineVars /\ NameB \in DOMAIN engineVars)
    => /\ formula = FBareMax
            => res.value = NMax(<<engineVars[NameA], engineVars[NameB]>>)
       /\ formula = FBareOther => res.value = Num(0)

\* two binary operators of + - * / % follow each other in e, with at most
\* white space between them, and the second is not a minus
ConsecutiveOperators(e) ==
    \E i \in 1..Len(e) : \E j \in (i + 1)..Len(e) :
        /\ e[i] \in {"+", "-", "*", "/", "%"}
        /\ e[j] \in {"+", "*", "/", "%"}
        /\ \A k \in (i + 1)..(j - 1) : e[k] \in SpaceChars

\* C14: sanitizeExpression returns null for every expression with two
\* consecutive binary operators of + - * / % unless the second is a unary
\* minus: '2 %* 3', '2 -+ 3' and '2 ** 3' are rejected, '2 * -3' is accepted.
C14_ConsecutiveOperatorsRejected ==
    (impl = "sanitized" /\ called = "evaluate" /\ ~IsBlank(formula)) =>
        /\ ConsecutiveOperators(Substituted)
              => (~sanitizeExpression(Substituted) /\ res.outcome = "rejected")
        /\ formula = FStarMinus => res.outcome # "rejected"

TokenAt(i, name) ==
    /\ Len(name) > 0
    /\ \A k \in 1..Len(name) : name[k] \in WordChars
    /\ MatchAt(formula, i, Ref(name))

\* the position of the first token {name} of the formula
FirstToken(name) ==
    CHOOSE i \in 1..Len(formula) :
        TokenAt(i, name) /\ \A k \in 1..(i - 1) : ~TokenAt(k, name)

\* C16: extractVariables(formula) returns each name that occurs as a {name}
\* token exactly once, ordered by the first occurrence, and the empty list
\* when there is no token; extractVariables('{a} + {b} * 2') is ['a','b'].
C16_ExtractVariables ==
    called = "extractVariables" =>
        /\ \A i, j \in 1..Len(names) :
              /\ i # j => names[i] # names[j]
              /\ i < j => FirstToken(names[i]) < FirstToken(names[j])
        /\ \A i \in 1..Len(names) : \E p \in 1..Len(formula) : TokenAt(p, names[i])
        /\ \A p \in 1..Len(formula) : \A q \in (p + 2)..Len(formula) :
              TokenAt(p, Slice(formula, p + 1, q - 1))
                  => \E i \in 1..Len(names) : names[i] = Slice(formula, p + 1, q - 1)
        /\ formula = FSum => names = <<NameA, NameB>>

\* a formula that names b twice, before and after a
C16_Witness ==
    /\ called = "extractVariables" /\ formula = FRepeat
    /\ names = <<NameB, NameA>>

\* C17: evaluate applies standard precedence: unary minus before * / %
\* before + and -, parentheses override, % is the remainder; so
\* evaluate('{a} + {b} * 2') is a + (b * 2) for all bounded integers a and b.
C17_Precedence ==
    (called = "evaluate" /\ NameA \in DOMAIN engineVars /\ NameB \in DOMAIN engineVars) =>
        LET a == engineVars[NameA].n
            b == engineVars[NameB].n
        IN  /\ formula = FSum => res.value = Num(a + (b * 2))
            /\ formula = FParens => res.value = Num((a + b) * 2)
            /\ formula = FUnary => res.value = Num((0 - (a % 2)) - b)
            /\ formula = FStarMinus => res.value = Num(0 - 6)

\* '{a} + {b} * 2' was evaluated with a = 3 and b = 4
C17_Witness ==
    /\ called = "evaluate" /\ formula = FSum /\ impl = "sanitized"
    /\ NameA \in DOMAIN engineVars /\ engineVars[NameA] = Num(3)
    /\ NameB \in DOMAIN engineVars /\ engineVars[NameB] = Num(4)
    /\ res.value = Num(11)

\* a valid identifier: not empty, a letter or underscore first, then letters,
\* digits or underscores
IsIdentifier(name) ==
    /\ Len(name) > 0
    /\ name[1] \in LowerLetters \cup UpperLetters \cup {"_"}
    /\ \A i \in 1..Len(name) : name[i] \in WordChars

\* C18: in every reachable store state every key of the variable mapping is a
\* valid identifier, whatever names addBlock, updateBlock, loadCalculator and
\* setVariable were given.
C18_KeysAreIdentifiers ==
    \A n \in DOMAIN variables : IsIdentifier(n)

\* C19: no stale display: after every store mutation, what each result, chart
\* and comparison block shows is the evaluation of its formula against the
\* entire current variable store.
C19_NoStaleDisplay ==
    \A i \in 1..Len(calculator.blocks) :
        LET b == calculator.blocks[i]
        IN  b.type \in {"result", "chart", "comparison"}
                => Displayed(b) = EngineEvaluate(impl, b.formula, variables, Num(0)).value

\* C20: after addBlock('input') or addBlock('slider') the new block's
\* variableName is a key of the variable store and of the engine with the
\* block's defaultValue, and evaluate of {variableName} returns that default.
C20_AddedBlockIsSet ==
    (last.op = "addBlock" /\ last.setDefault) =>
        /\ \E i \in 1..Len(calculator.blocks) :
              /\ calculator.blocks[i].id = last.id
              /\ calculator.blocks[i].variableName = last.name
              /\ calculator.blocks[i].defaultValue = last.value
        /\ last.name \in DOMAIN variables /\ variables[last.name] = last.value
        /\ last.name \in DOMAIN engineVars /\ engineVars[last.name] = last.value
        /\ StoreEvaluate(Ref(last.name)).value = last.value

\* C21: after every store action the variable map the FormulaEngine evaluates
\* against equals, key for key and value for value, the store's variables
\* mapping that consumers read.
C21_EngineEqualsStore ==
    last.op \in {"createNewCalculator", "loadCalculator", "addBlock",
                 "updateBlock", "deleteBlock", "setVariable"}
        => engineVars = variables

\* the names the calculators of the model use
KnownNames == InputNames \cup SliderNames \cup UserNames \cup ImportNames

\* C22: after createNewCalculator or loadCalculator formulas are evaluated
\* only against the variables of the calculator just opened: a name that is
\* no variable of it evaluates to 0, and after loadCalculator the variable of
\* every input and slider block evaluates to the block's defaultValue.
C22_OnlyOpenedCalculator ==
    (impl = "sanitized" /\ last.op \in {"createNewCalculator", "loadCalculator"}) =>
        /\ \A n \in KnownNames \ DOMAIN variables :
              StoreEvaluate(Ref(n)).value = Num(0)
        /\ last.op = "loadCalculator" =>
              \A i \in 1..Len(calculator.blocks) :
                  LET b == calculator.blocks[i]
                  IN  IsVarBlock(b) =>
                          StoreEvaluate(Ref(b.variableName)).value = b.defaultValue

\* the keys of the store's variables are the names of the input and slider
\* blocks of the calculator
KeysAreBlockNames == DOMAIN variables = BlockNames

\* C23: after any sequence of addBlock, updateBlock (one that changes
\* variableName and defaultValue together and a rename onto a used name
\* included) and deleteBlock starting from createNewCalculator, the set of
\* keys of the store's variables is the set of variableName values of the
\* input and slider blocks of the calculator.
C23_KeysFollowBlocks ==
    since \subseteq {"addBlock", "updateBlock", "deleteBlock"} => KeysAreBlockNames

\* C24: substitution keeps the value of every finite variable: evaluate of
\* '{a}-{b}' is a - b and evaluate of '-{b}' is -b for all finite a and b,
\* negative b included.
C24_SubstitutionKeepsValue ==
    (/\ impl = "sanitized"
     /\ called = "evaluate"
     /\ NameA \in DOMAIN engineVars /\ IsFinite(engineVars[NameA])
     /\ NameB \in DOMAIN engineVars /\ IsFinite(engineVars[NameB])) =>
        /\ formula = FDifference =>
              res.value = NSub(engineVars[NameA], engineVars[NameB])
        /\ formula = FNegate => res.value = NNeg(engineVars[NameB])

\* ------------------------------------------------------------------------
\* Properties of the server
\* ------------------------------------------------------------------------
\* C25: when several registrations run concurrently on a database with no
\* super_admin, trySetFirstUserAsSuperAdmin promotes at most one user.
C25_AtMostOnePromoted ==
    Cardinality({ u \in UserIds : hook[u].promoted }) <= 1

\* C26: after any interleaving of upload requests, two uploads with the same
\* name at the same time included, every calculator in the registry has a
\* distinct slug and the files stored for a slug come from exactly one upload.
C26_OneUploadPerSlug ==
    /\ \A c, d \in calcs : c.slug = d.slug => c = d
    /\ \A c \in calcs : \A k \in KeysOf(c.slug) : s3[k] = c.by

\* C27: an upload request that ends with an error response leaves no trace:
\* no registry entry of it is added and no file of it stays under its
\* prefix of the bucket.
C27_FailedUploadLeavesNothing ==
    \A u \in Uploads :
        (up[u].pc = "done" /\ up[u].status >= 400) =>
            /\ \A c \in calcs : c.by # u
            /\ \A k \in KeysOf(up[u].slug) : s3[k] # u

\* C28: no admin API call deletes a super_admin: once a user has role
\* super_admin the set of super_admin users never shrinks.
C28_SuperAdminsNeverShrink ==
    [][SuperAdmins \subseteq SuperAdmins']_vars

\* ------------------------------------------------------------------------
\* Properties of the block list
\* ------------------------------------------------------------------------
\* the order property of every block is its index in the list (from 0) and
\* no two blocks have the same id
OrderIsIndex(blocks) ==
    /\ \A i \in 1..Len(blocks) : blocks[i].order = i - 1
    /\ \A i, j \in 1..Len(blocks) : blocks[i].id = blocks[j].id => i = j

\* C29: after any sequence of addBlock, deleteBlock and reorderBlocks starting
\* from createNewCalculator the block at list index i has order i, for every
\* i, and the block ids are pairwise distinct.
C29_OrderIsIndex ==
    since \subseteq {"addBlock", "deleteBlock", "reorderBlocks"}
        => OrderIsIndex(calculator.blocks)

\* deleteBlock has removed a block in front of the block that is first now
C29_Witness ==
    /\ since = {"addBlock", "deleteBlock"}
    /\ last.op = "deleteBlock"
    /\ Len(calculator.blocks) >= 1
    /\ calculator.blocks[1].id > last.id
    /\ OrderIsIndex(calculator.blocks)

\* a block without its order property
Unordered(b) == [b EXCEPT !.order = 0]

\* what reorderBlocks(activeId, overId) leaves behind
Reordered(activeId, overId) ==
    LET blocks == calculator.blocks
        a == FindIndex(blocks, activeId)
        o == FindIndex(blocks, overId)
    IN  IF calculator.open /\ a > 0 /\ o > 0
        THEN /\ Len(calculator'.blocks) = Len(blocks)
             /\ { Unordered(calculator'.blocks[i]) : i \in 1..Len(blocks) }
                    = { Unordered(blocks[i]) : i \in 1..Len(blocks) }
             /\ calculator'.blocks[o].id = activeId
             /\ calculator'.open
             /\ UNCHANGED <<variables, variablesVersion, engineVars, selectedBlockId>>
        ELSE /\ UNCHANGED <<calculator, variables, variablesVersion, engineVars,
                            selectedBlockId>>
             /\ notified' = <<>>

====
